---------------------------- MODULE Spec2Model ----------------------------
(***************************************************************************)
(* Model of fse/models/average_inner.pyx: the batch populators             *)
(* (populate_base_s2v_config, populate_ft_s2v_config), the averaging       *)
(* engines (compute_base_sentence_averages, compute_ft_sentence_averages)  *)
(* and the entry point train_average_cy that runs one populator and then   *)
(* the matching engine.                                                    *)
(*                                                                         *)
(* REAL_t values are modelled as exact rationals <<numerator, denominator>>*)
(* (float32 rounding is not modelled).  A matrix is a function from row    *)
(* index to vector; the pointer arithmetic  row * size  of the source is   *)
(* the row index here.  MAX_WORDS and MAX_NGRAMS are the compile-time      *)
(* limits of the source (10000 and 40) scaled down.                        *)
(***************************************************************************)
EXTENDS Integers, Sequences, FiniteSets, TLC

\* DEF MAX_WORDS = 10000 in the source, scaled down.
MAX_WORDS == 2
\* DEF MAX_NGRAMS = 40 in the source, scaled down.
MAX_NGRAMS == 2

\* Largest batch fed to one call: sentences and total tokens, past MAX_WORDS
\* so that the cap is hit with input left over.  The batches drawn from two
\* kinds of token are one token longer: a sentence cut by the cap can then
\* be followed by another one.
MaxSents == MAX_WORDS + 1
MaxTokens == MAX_WORDS + 1
MaxTokensFew == MAX_WORDS + 2

---------------------------------------------------------------------------
(* REAL_t arithmetic: exact rationals in lowest terms.                     *)

Abs(x) == IF x < 0 THEN -x ELSE x

RECURSIVE GCD(_, _)
GCD(a, b) == IF b = 0 THEN a ELSE GCD(b, a % b)

Rat(n, d) ==
    LET g == GCD(Abs(n), Abs(d))
        s == IF d < 0 THEN -1 ELSE 1
    IN  << (s * n) \div g, (s * d) \div g >>

RAdd(x, y) == Rat(x[1] * y[2] + y[1] * x[2], x[2] * y[2])
RMul(x, y) == Rat(x[1] * y[1], x[2] * y[2])

ZEROF == <<0, 1>>
ONEF == <<1, 1>>

\* c.size: the embedding dimension, 2 in every configuration of the model.
Dim == 1 .. 2

Vec(a, b) == [d \in Dim |-> IF d = 1 THEN Rat(a, 1) ELSE Rat(b, 1)]
ZeroVec == [d \in Dim |-> ZEROF]

\* y += alpha * x
saxpy(alpha, x, y) == [d \in Dim |-> RAdd(y[d], RMul(alpha, x[d]))]
\* x = alpha * x
sscal(alpha, x) == [d \in Dim |-> RMul(alpha, x[d])]

---------------------------------------------------------------------------
(* The model-like configuration and the vocabulary the call reads.         *)

\* model.wv.vocab: token -> Vocab object with .index
InVocabTokens == {"cat", "sat"}
VocabIndex(token) == IF token = "cat" THEN 0 ELSE 1
InVocab(token) == token \in InVocabTokens

\* c.word_vectors: one row per vocabulary entry
word_vectors == [w \in 0 .. 1 |-> IF w = 0 THEN Vec(1, 0) ELSE Vec(0, 1)]
\* c.word_weights: one weight per vocabulary entry
word_weights == [w \in 0 .. 1 |-> IF w = 0 THEN Rat(1, 2) ELSE Rat(3, 10)]

\* c.ngram_vectors: one row per bucket (c.bucket = 3)
ngram_vectors ==
    [b \in 0 .. 2 |-> IF b = 0 THEN Vec(2, 0) ELSE IF b = 1 THEN Vec(0, 2) ELSE Vec(3, 5)]

\* [ft_hash_bytes(n) % c.bucket for n in compute_ngrams_bytes(token, min_n, max_n)]:
\* the external functions, given by their value on each token of the model.
\* "x" is too short to have an n-gram, "dog" has two, "zebra" has one more
\* than MAX_NGRAMS.
NGramHashes(token) ==
    IF token = "x" THEN <<>>
    ELSE IF token = "dog" THEN <<0, 1>>
    ELSE [j \in 1 .. MAX_NGRAMS + 1 |-> (j + 1) % 3]

\* The target rows a sentence may address (obj.index).
Rows == {0, 1}
\* The output matrix as the caller hands it in: row 0 zeroed, row 1 not.
PreCall == [r \in Rows |-> IF r = 0 THEN ZeroVec ELSE Vec(1, 2)]
\* What the scratch buffer may hold when the call starts.
ScratchAtEntry == {ZeroVec, Vec(5, 7)}

\* A cell of a flat array that no statement has written.
Unset == 0 - 1

\* The tokens of the batches: "dog", "x" and "zebra" are not in the vocabulary.
BaseTokens == {"cat", "sat", "dog"}
FTTokens == {"sat", "x", "dog", "zebra"}
FTFewTokens == {"sat", "dog"}
BaseFewTokens == {"sat", "dog"}

Sentence(words, index) == [words |-> words, index |-> index]

RECURSIVE SumTo(_, _)
SumTo(lens, k) == IF k = 0 THEN 0 ELSE lens[k] + SumTo(lens, k - 1)

\* The batch whose k-th sentence holds the next lens[k] tokens of flat and
\* targets rows[k].
BatchFrom(lens, flat, rows) ==
    [k \in DOMAIN lens |->
        Sentence(SubSeq(flat, SumTo(lens, k - 1) + 1, SumTo(lens, k)), rows[k])]

\* The sentence lengths of every batch of at most n sentences holding at
\* most t tokens in all.
BatchShapes(n, t) ==
    UNION {{lens \in [1 .. m -> 0 .. t] : SumTo(lens, m) <= t} : m \in 0 .. n}

\* The batches of those shapes over the tokens T.
IsBatchOf(b, T, n, t) ==
    \E lens \in BatchShapes(n, t) :
      \E flat \in [1 .. SumTo(lens, Len(lens)) -> T] :
        \E rows \in [1 .. Len(lens) -> Rows] :
          b = BatchFrom(lens, flat, rows)

---------------------------------------------------------------------------
VARIABLES
    pc,                 \* position of train_average_cy
    is_ft,              \* model.is_ft
    indexed_sentences,  \* the batch
    sentence_vectors,   \* target: the output matrix
    mem,                \* memory[0]: the scratch buffer
    word_indices,       \* c.word_indices[MAX_WORDS]
    sent_adresses,      \* c.sent_adresses[MAX_WORDS]
    sentence_boundary,  \* c.sentence_boundary[MAX_WORDS + 1] and the cells after it
    subwords_idx_len,   \* c.subwords_idx_len[MAX_WORDS]
    subwords_idx,       \* memory[1]: c.subwords_idx
    eff_sents,          \* eff_sentences, as the populator returned it
    eff_words,          \* eff_words, as the populator returned it
    sent_idx,           \* the engine's sentence loop counter
    sent_row,           \* the engine's local sent_row
    mem_at_entry,       \* history: the scratch buffer as the caller handed it in
    ops,                \* history: one entry per word the engine handled
    ends                \* history: one entry per sentence the engine finished

vars == <<pc, is_ft, indexed_sentences, sentence_vectors, mem, word_indices,
          sent_adresses, sentence_boundary, subwords_idx_len, subwords_idx,
          eff_sents, eff_words, sent_idx, sent_row, mem_at_entry, ops, ends>>

\* The entries sentence_boundary is declared with.
BoundaryCap == MAX_WORDS + 1

\* The configuration struct before the populator runs: nothing written yet.
FreshConfig ==
    [eff_words |-> 0,
     eff_sents |-> 0,
     word_indices |-> [i \in 0 .. MAX_WORDS - 1 |-> Unset],
     sent_adresses |-> [i \in 0 .. MAX_WORDS - 1 |-> Unset],
     sentence_boundary |-> [i \in 0 .. MaxSents |-> Unset],
     subwords_idx_len |-> [i \in 0 .. MAX_WORDS - 1 |-> Unset],
     subwords_idx |-> [i \in 0 .. MAX_WORDS * MAX_NGRAMS - 1 |-> Unset]]

---------------------------------------------------------------------------
(* populate_base_s2v_config                                                *)

\* Lines 78-81: a token found in the vocabulary takes the next slot.
BaseRetain(p, token, row) ==
    [p EXCEPT !.word_indices[p.eff_words] = VocabIndex(token),
              !.sent_adresses[p.eff_words] = row,
              !.eff_words = p.eff_words + 1]

\* The token loop with `break` where the source has `continue`: a token
\* outside the vocabulary ends the sentence.
RECURSIVE BaseTokenLoopBreaksOnOOV(_, _, _, _)
BaseTokenLoopBreaksOnOOV(words, j, row, p) ==
    IF j > Len(words) THEN p
    ELSE IF ~InVocab(words[j]) THEN p
    ELSE LET q == BaseRetain(p, words[j], row)
         IN  IF q.eff_words = MAX_WORDS THEN q
             ELSE BaseTokenLoopBreaksOnOOV(words, j + 1, row, q)

\* The token loop recording a token outside the vocabulary as word 0, the
\* way the subword populator does, instead of dropping it.
RECURSIVE BaseTokenLoopKeepsOOV(_, _, _, _)
BaseTokenLoopKeepsOOV(words, j, row, p) ==
    IF j > Len(words) THEN p
    ELSE LET q == BaseRetain(p, IF InVocab(words[j]) THEN words[j] ELSE "cat", row)
         IN  IF q.eff_words = MAX_WORDS THEN q
             ELSE BaseTokenLoopKeepsOOV(words, j + 1, row, q)

\* Lines 74-83: the token loop of one sentence, from token j on.
RECURSIVE BaseTokenLoop(_, _, _, _)
BaseTokenLoop(words, j, row, p) ==
    IF j > Len(words) THEN p
    ELSE IF ~InVocab(words[j]) THEN BaseTokenLoop(words, j + 1, row, p)
    ELSE LET q == BaseRetain(p, words[j], row)
         IN  IF q.eff_words = MAX_WORDS THEN q
             ELSE BaseTokenLoop(words, j + 1, row, q)

\* The boundary stored before the count is raised: entry eff_sents is
\* overwritten and entry eff_sents + 1 never set.
CloseSentenceStaleIndex(q) ==
    [q EXCEPT !.eff_sents = q.eff_sents + 1,
              !.sentence_boundary[q.eff_sents] = q.eff_words]

\* Lines 85-86 and 127-128: count the sentence and append its boundary.
CloseSentence(q) ==
    [q EXCEPT !.eff_sents = q.eff_sents + 1,
              !.sentence_boundary[q.eff_sents + 1] = q.eff_words]

\* The sentence loop leaving at the cap before the sentence is counted.
RECURSIVE BaseSentenceLoopBreaksBeforeCount(_, _, _)
BaseSentenceLoopBreaksBeforeCount(sents, k, p) ==
    IF k > Len(sents) THEN p
    ELSE IF sents[k].words = <<>> THEN BaseSentenceLoopBreaksBeforeCount(sents, k + 1, p)
    ELSE LET q == BaseTokenLoop(sents[k].words, 1, sents[k].index, p)
         IN  IF q.eff_words = MAX_WORDS THEN q
             ELSE BaseSentenceLoopBreaksBeforeCount(sents, k + 1, CloseSentence(q))

\* Lines 71-89: the sentence loop, from sentence k on.
RECURSIVE BaseSentenceLoop(_, _, _)
BaseSentenceLoop(sents, k, p) ==
    IF k > Len(sents) THEN p
    ELSE IF sents[k].words = <<>> THEN BaseSentenceLoop(sents, k + 1, p)
    ELSE LET r == CloseSentence(BaseTokenLoop(sents[k].words, 1, sents[k].index, p))
         IN  IF r.eff_words = MAX_WORDS THEN r
             ELSE BaseSentenceLoop(sents, k + 1, r)

populate_base_s2v_config(sents) ==
    BaseSentenceLoop(sents, 1, [FreshConfig EXCEPT !.sentence_boundary[0] = 0])

---------------------------------------------------------------------------
(* populate_ft_s2v_config                                                  *)

Min(a, b) == IF a < b THEN a ELSE b

\* Lines 119-120: hash i of the kept ones goes to cell eff_words + i.
WriteHashes(arr, at, kept) ==
    [c \in DOMAIN arr |->
        IF c >= at /\ c < at + Len(kept) THEN kept[c - at + 1] ELSE arr[c]]

\* Lines 104-122: every token takes the next slot, in the vocabulary or not.
FTRecord(p, token, row) ==
    LET at == p.eff_words
        hashes == NGramHashes(token)
        kept == SubSeq(hashes, 1, Min(Len(hashes), MAX_NGRAMS))
        q == [p EXCEPT !.sent_adresses[at] = row]
        r == IF InVocab(token)
             THEN [q EXCEPT !.word_indices[at] = VocabIndex(token),
                            !.subwords_idx_len[at] = 0]
             ELSE [q EXCEPT !.word_indices[at] = 0,
                            !.subwords_idx_len[at] = Min(Len(hashes), MAX_NGRAMS),
                            !.subwords_idx = WriteHashes(q.subwords_idx, at, kept)]
    IN  [r EXCEPT !.eff_words = at + 1]

\* Lines 103-125: the token loop of one sentence, from token j on.
RECURSIVE FTTokenLoop(_, _, _, _)
FTTokenLoop(words, j, row, p) ==
    IF j > Len(words) THEN p
    ELSE LET q == FTRecord(p, words[j], row)
         IN  IF q.eff_words = MAX_WORDS THEN q
             ELSE FTTokenLoop(words, j + 1, row, q)

\* Lines 100-131: the sentence loop, from sentence k on.
RECURSIVE FTSentenceLoop(_, _, _)
FTSentenceLoop(sents, k, p) ==
    IF k > Len(sents) THEN p
    ELSE IF sents[k].words = <<>> THEN FTSentenceLoop(sents, k + 1, p)
    ELSE LET r == CloseSentence(FTTokenLoop(sents[k].words, 1, sents[k].index, p))
         IN  IF r.eff_words = MAX_WORDS THEN r
             ELSE FTSentenceLoop(sents, k + 1, r)

populate_ft_s2v_config(sents) ==
    FTSentenceLoop(sents, 1, [FreshConfig EXCEPT !.sentence_boundary[0] = 0])

---------------------------------------------------------------------------
(* compute_base_sentence_averages                                          *)

\* The accumulation with the word's weight left out (alpha = 1).
BaseAccumulateUnweighted(c, st, i) ==
    LET row == c.sent_adresses[i]
        word_idx == c.word_indices[i]
    IN  [st EXCEPT
           !.sv[row] = saxpy(ONEF, word_vectors[word_idx], st.sv[row]),
           !.sent_len = st.sent_len + 1,
           !.sent_row = row,
           !.ops = Append(st.ops,
                    [sent |-> st.sent, pos |-> i, branch |-> "vocab", row |-> row,
                     word |-> word_idx, hashes |-> <<>>,
                     mem_before |-> st.mem, mem_after |-> st.mem])]

\* Lines 165-170: one word of the range is accumulated into its row.
BaseAccumulate(c, st, i) ==
    LET row == c.sent_adresses[i]
        word_idx == c.word_indices[i]
    IN  [st EXCEPT
           !.sv[row] = saxpy(word_weights[word_idx], word_vectors[word_idx], st.sv[row]),
           !.sent_len = st.sent_len + 1,
           !.sent_row = row,
           !.ops = Append(st.ops,
                    [sent |-> st.sent, pos |-> i, branch |-> "vocab", row |-> row,
                     word |-> word_idx, hashes |-> <<>>,
                     mem_before |-> st.mem, mem_after |-> st.mem])]

\* Lines 164-170: the word loop over [i, sent_end).
RECURSIVE BaseWordLoop(_, _, _, _)
BaseWordLoop(c, i, sent_end, st) ==
    IF i >= sent_end THEN st
    ELSE BaseWordLoop(c, i + 1, sent_end, BaseAccumulate(c, st, i))

\* Lines 172-174: a sentence that counted a word has the row of its last
\* word scaled by 1 / sent_len.
BaseFinalize(st) ==
    IF st.sent_len > 0
    THEN [st EXCEPT !.sv[st.sent_row] = sscal(Rat(1, st.sent_len), st.sv[st.sent_row])]
    ELSE st

\* Lines 160-174: the pass of the sentence loop for sentence st.sent.
BaseSentencePass(c, st) ==
    BaseFinalize(BaseWordLoop(c, c.sentence_boundary[st.sent],
                              c.sentence_boundary[st.sent + 1], st))

\* The configuration struct as the populator left it.
Config ==
    [eff_words |-> eff_words,
     eff_sents |-> eff_sents,
     word_indices |-> word_indices,
     sent_adresses |-> sent_adresses,
     sentence_boundary |-> sentence_boundary,
     subwords_idx_len |-> subwords_idx_len,
     subwords_idx |-> subwords_idx]

\* The engine's locals as a pass of the sentence loop starts (sent_len is
\* reset by line 162 / 214, sent_row is whatever the last pass left).
PassStart ==
    [sv |-> sentence_vectors, mem |-> mem, sent |-> sent_idx, sent_len |-> 0,
     sent_row |-> sent_row, ops |-> ops]

\* The entry a finished sentence leaves in the history.
EndEntry(st) ==
    [sent |-> st.sent, len |-> st.sent_len,
     row |-> IF st.sent_len > 0 THEN st.sent_row ELSE Unset,
     value |-> IF st.sent_len > 0 THEN st.sv[st.sent_row] ELSE ZeroVec,
     touched |-> {r \in Rows : st.sv[r] # sentence_vectors[r]}]

---------------------------------------------------------------------------
(* train_average_cy, plain branch (lines 266-272)                          *)

\* The populator wrote sentence_boundary at an index the table does not have.
BoundaryOverflow(p) == p.eff_sents >= BoundaryCap

Populated(p) ==
    /\ word_indices' = p.word_indices
    /\ sent_adresses' = p.sent_adresses
    /\ sentence_boundary' = p.sentence_boundary
    /\ subwords_idx_len' = p.subwords_idx_len
    /\ subwords_idx' = p.subwords_idx
    /\ eff_sents' = p.eff_sents
    /\ eff_words' = p.eff_words

\* Line 269: the populator runs to its return.  A store past the end of the
\* table lands in the memory that follows it and is read back from there.
PopulateBase ==
    /\ pc = "start" /\ ~is_ft
    /\ Populated(populate_base_s2v_config(indexed_sentences))
    /\ pc' = "compute"
    /\ UNCHANGED <<is_ft, indexed_sentences, sentence_vectors, mem, sent_idx,
                   sent_row, mem_at_entry, ops, ends>>

\* Line 86 with eff_sents past the table: the other outcome of the
\* out-of-bounds store is that the process is ended.
PopulateBaseAbort ==
    /\ pc = "start" /\ ~is_ft
    /\ BoundaryOverflow(populate_base_s2v_config(indexed_sentences))
    /\ pc' = "crashed"
    /\ UNCHANGED <<is_ft, indexed_sentences, sentence_vectors, mem, word_indices,
                   sent_adresses, sentence_boundary, subwords_idx_len, subwords_idx,
                   eff_sents, eff_words, sent_idx, sent_row, mem_at_entry, ops, ends>>

\* Lines 159-174: one pass of the sentence loop.
ComputeBaseSentence ==
    /\ pc = "compute" /\ ~is_ft
    /\ sent_idx < eff_sents
    /\ LET st == BaseSentencePass(Config, PassStart)
       IN  /\ sentence_vectors' = st.sv
           /\ sent_row' = st.sent_row
           /\ ops' = st.ops
           /\ ends' = Append(ends, EndEntry(st))
    /\ sent_idx' = sent_idx + 1
    /\ UNCHANGED <<pc, is_ft, indexed_sentences, mem, word_indices, sent_adresses,
                   sentence_boundary, subwords_idx_len, subwords_idx, eff_sents,
                   eff_words, mem_at_entry>>

\* Line 281: the sentence loop is over and the counts are returned.
ComputeBaseReturn ==
    /\ pc = "compute" /\ ~is_ft
    /\ sent_idx = eff_sents
    /\ pc' = "done"
    /\ UNCHANGED <<is_ft, indexed_sentences, sentence_vectors, mem, word_indices,
                   sent_adresses, sentence_boundary, subwords_idx_len, subwords_idx,
                   eff_sents, eff_words, sent_idx, sent_row, mem_at_entry, ops, ends>>

---------------------------------------------------------------------------
(* compute_ft_sentence_averages                                            *)

\* Line 228: the cells read for the word at flat position i.
HashesRead(c, i) == [j \in 1 .. c.subwords_idx_len[i] |-> c.subwords_idx[i + j - 1]]

\* Lines 227-229: the n-gram vectors of the hashes are added into mem.
RECURSIVE NgramLoop(_, _, _)
NgramLoop(hashes, j, m) ==
    IF j > Len(hashes) THEN m
    ELSE NgramLoop(hashes, j + 1, saxpy(ONEF, ngram_vectors[hashes[j]], m))

\* One word of the range without the memset of line 233: the scratch
\* buffer keeps the n-gram sum of the word.
FTWordKeepsScratch(c, st, i) ==
    LET row == c.sent_adresses[i]
        word_idx == c.word_indices[i]
        ngrams == c.subwords_idx_len[i]
        hashes == HashesRead(c, i)
        summed == NgramLoop(hashes, 1, st.mem)
    IN  IF ngrams = 0
        THEN [st EXCEPT
                !.sv[row] = saxpy(word_weights[word_idx], word_vectors[word_idx],
                                  st.sv[row]),
                !.sent_len = st.sent_len + 1,
                !.sent_row = row,
                !.ops = Append(st.ops,
                        [sent |-> st.sent, pos |-> i, branch |-> "vocab", row |-> row,
                         word |-> word_idx, hashes |-> <<>>,
                         mem_before |-> st.mem, mem_after |-> st.mem])]
        ELSE [st EXCEPT
                !.sv[row] = saxpy(Rat(1, ngrams), summed, st.sv[row]),
                !.mem = summed,
                !.sent_len = st.sent_len + 1,
                !.sent_row = row,
                !.ops = Append(st.ops,
                        [sent |-> st.sent, pos |-> i, branch |-> "ngram", row |-> row,
                         word |-> word_idx, hashes |-> hashes,
                         mem_before |-> st.mem, mem_after |-> summed])]

\* Lines 217-233: one word of the range.
FTWord(c, st, i) ==
    LET row == c.sent_adresses[i]
        word_idx == c.word_indices[i]
        ngrams == c.subwords_idx_len[i]
        hashes == HashesRead(c, i)
        summed == NgramLoop(hashes, 1, st.mem)
    IN  IF ngrams = 0
        THEN [st EXCEPT
                !.sv[row] = saxpy(word_weights[word_idx], word_vectors[word_idx],
                                  st.sv[row]),
                !.sent_len = st.sent_len + 1,
                !.sent_row = row,
                !.ops = Append(st.ops,
                        [sent |-> st.sent, pos |-> i, branch |-> "vocab", row |-> row,
                         word |-> word_idx, hashes |-> <<>>,
                         mem_before |-> st.mem, mem_after |-> st.mem])]
        ELSE [st EXCEPT
                !.sv[row] = saxpy(Rat(1, ngrams), summed, st.sv[row]),
                !.mem = ZeroVec,
                !.sent_len = st.sent_len + 1,
                !.sent_row = row,
                !.ops = Append(st.ops,
                        [sent |-> st.sent, pos |-> i, branch |-> "ngram", row |-> row,
                         word |-> word_idx, hashes |-> hashes,
                         mem_before |-> st.mem, mem_after |-> ZeroVec])]

\* Lines 216-233: the word loop over [i, sent_end).
RECURSIVE FTWordLoop(_, _, _, _)
FTWordLoop(c, i, sent_end, st) ==
    IF i >= sent_end THEN st
    ELSE FTWordLoop(c, i + 1, sent_end, FTWord(c, st, i))

\* Lines 235-237: as in the plain engine.
FTFinalize(st) ==
    IF st.sent_len > 0
    THEN [st EXCEPT !.sv[st.sent_row] = sscal(Rat(1, st.sent_len), st.sv[st.sent_row])]
    ELSE st

\* Lines 212-237: the pass of the sentence loop for sentence st.sent.
FTSentencePass(c, st) ==
    FTFinalize(FTWordLoop(c, c.sentence_boundary[st.sent],
                          c.sentence_boundary[st.sent + 1], st))

---------------------------------------------------------------------------
(* train_average_cy, subword branch (lines 273-279)                        *)

\* Line 276: the populator runs to its return.
PopulateFT ==
    /\ pc = "start" /\ is_ft
    /\ Populated(populate_ft_s2v_config(indexed_sentences))
    /\ pc' = "populated"
    /\ UNCHANGED <<is_ft, indexed_sentences, sentence_vectors, mem, sent_idx,
                   sent_row, mem_at_entry, ops, ends>>

\* The engine entered without the memset of line 209.
ComputeFTEnterNoMemset ==
    /\ pc = "populated" /\ is_ft
    /\ pc' = "compute"
    /\ UNCHANGED <<is_ft, indexed_sentences, sentence_vectors, mem, word_indices,
                   sent_adresses, sentence_boundary, subwords_idx_len, subwords_idx,
                   eff_sents, eff_words, sent_idx, sent_row, mem_at_entry, ops, ends>>

\* Line 209: the engine starts by zeroing the scratch buffer.
ComputeFTEnter ==
    /\ pc = "populated" /\ is_ft
    /\ mem' = ZeroVec
    /\ pc' = "compute"
    /\ UNCHANGED <<is_ft, indexed_sentences, sentence_vectors, word_indices,
                   sent_adresses, sentence_boundary, subwords_idx_len, subwords_idx,
                   eff_sents, eff_words, sent_idx, sent_row, mem_at_entry, ops, ends>>

\* Lines 211-237: one pass of the sentence loop.
ComputeFTSentence ==
    /\ pc = "compute" /\ is_ft
    /\ sent_idx < eff_sents
    /\ LET st == FTSentencePass(Config, PassStart)
       IN  /\ sentence_vectors' = st.sv
           /\ mem' = st.mem
           /\ sent_row' = st.sent_row
           /\ ops' = st.ops
           /\ ends' = Append(ends, EndEntry(st))
    /\ sent_idx' = sent_idx + 1
    /\ UNCHANGED <<pc, is_ft, indexed_sentences, word_indices, sent_adresses,
                   sentence_boundary, subwords_idx_len, subwords_idx, eff_sents,
                   eff_words, mem_at_entry>>

\* Line 281: the sentence loop is over and the counts are returned.
ComputeFTReturn ==
    /\ pc = "compute" /\ is_ft
    /\ sent_idx = eff_sents
    /\ pc' = "done"
    /\ UNCHANGED <<is_ft, indexed_sentences, sentence_vectors, mem, word_indices,
                   sent_adresses, sentence_boundary, subwords_idx_len, subwords_idx,
                   eff_sents, eff_words, sent_idx, sent_row, mem_at_entry, ops, ends>>

---------------------------------------------------------------------------
InitCommon ==
    /\ pc = "start"
    /\ sentence_vectors = PreCall
    /\ word_indices = FreshConfig.word_indices
    /\ sent_adresses = FreshConfig.sent_adresses
    /\ sentence_boundary = FreshConfig.sentence_boundary
    /\ subwords_idx_len = FreshConfig.subwords_idx_len
    /\ subwords_idx = FreshConfig.subwords_idx
    /\ eff_sents = 0
    /\ eff_words = 0
    /\ sent_idx = 0
    /\ sent_row = Unset
    /\ ops = <<>>
    /\ ends = <<>>

InitBase ==
    /\ InitCommon
    /\ is_ft = FALSE
    /\ IsBatchOf(indexed_sentences, BaseTokens, MaxSents, MaxTokens)
    /\ mem = ZeroVec
    /\ mem_at_entry = mem

\* Plain mode, one token in the vocabulary and one not, the longer batches.
InitBaseFew ==
    /\ InitCommon
    /\ is_ft = FALSE
    /\ IsBatchOf(indexed_sentences, BaseFewTokens, MaxSents, MaxTokensFew)
    /\ mem = ZeroVec
    /\ mem_at_entry = mem

NextBase ==
    \/ PopulateBase
    \/ PopulateBaseAbort
    \/ ComputeBaseSentence
    \/ ComputeBaseReturn

\* Subword mode, every kind of token, batches of at most MAX_WORDS sentences.
InitFT ==
    /\ InitCommon
    /\ is_ft = TRUE
    /\ IsBatchOf(indexed_sentences, FTTokens, MAX_WORDS, MAX_WORDS + 1)
    /\ mem \in ScratchAtEntry
    /\ mem_at_entry = mem

\* Subword mode, one token in the vocabulary and one not, the longer batches.
InitFTFew ==
    /\ InitCommon
    /\ is_ft = TRUE
    /\ IsBatchOf(indexed_sentences, FTFewTokens, MaxSents, MaxTokensFew)
    /\ mem = Vec(5, 7)
    /\ mem_at_entry = mem

NextFT ==
    \/ PopulateFT
    \/ ComputeFTEnter
    \/ ComputeFTSentence
    \/ ComputeFTReturn

\* train_average_cy in either mode.
Init == InitBaseFew \/ InitFTFew
Next == NextBase \/ NextFT
Spec == Init /\ [][Next]_vars

\* train_average_cy in plain mode.
SpecBase == InitBase /\ [][NextBase]_vars

\* train_average_cy in subword mode.
SpecFT == InitFT /\ [][NextFT]_vars

---------------------------------------------------------------------------
(* What the claims speak of, read off the batch itself.                    *)

AfterPopulate == pc \in {"populated", "compute", "done"}
Returned == pc = "done"

\* Every token occurrence of the batch, in sentence order and token order.
RECURSIVE Occurrences(_, _)
Occurrences(sents, k) ==
    IF k > Len(sents) THEN <<>>
    ELSE [j \in 1 .. Len(sents[k].words) |->
             [token |-> sents[k].words[j], row |-> sents[k].index,
              sent |-> k, at |-> j]]
         \o Occurrences(sents, k + 1)

\* An occurrence that takes a slot: any token in subword mode, a token of the
\* vocabulary in plain mode.
TakesSlot(e) == is_ft \/ InVocab(e.token)
SlotTakers == SelectSeq(Occurrences(indexed_sentences, 1), TakesSlot)
\* The occurrences up to the cap.
Recorded == SubSeq(SlotTakers, 1, Min(MAX_WORDS, Len(SlotTakers)))

\* The recorded occurrences of input sentence k.
OwnWords(k) == SelectSeq(Recorded, LAMBDA e : e.sent = k)

\* Input sentence k is the only sentence of the batch targeting its row.
OnlyTarget(k) ==
    \A k2 \in 1 .. Len(indexed_sentences) :
        k2 # k => indexed_sentences[k2].index # indexed_sentences[k].index

\* The input positions of the non-empty sentences, in order.
RECURSIVE NonEmptyFrom(_)
NonEmptyFrom(k) ==
    IF k > Len(indexed_sentences) THEN <<>>
    ELSE (IF indexed_sentences[k].words = <<>> THEN <<>> ELSE <<k>>)
         \o NonEmptyFrom(k + 1)
NonEmpty == NonEmptyFrom(1)

\* row + sum over the words, in order, of weight * embedding row.
RECURSIVE WeightedSum(_, _, _)
WeightedSum(words, j, acc) ==
    IF j > Len(words) THEN acc
    ELSE WeightedSum(words, j + 1,
            [d \in Dim |-> RAdd(acc[d],
                RMul(word_weights[VocabIndex(words[j].token)],
                     word_vectors[VocabIndex(words[j].token)][d]))])

---------------------------------------------------------------------------
\* C1: plain engine: after the call, the row of every counted sentence that
\* has a word of the vocabulary and is the only sentence of the batch
\* targeting its row equals (pre-call row + sum in token order of
\* weight * embedding row over its retained words) times 1 / count.
C1_PlainAverage ==
    (Returned /\ ~is_ft) =>
        \A k \in 1 .. Len(indexed_sentences) :
            (OwnWords(k) # <<>> /\ OnlyTarget(k)) =>
                LET row == indexed_sentences[k].index
                    total == WeightedSum(OwnWords(k), 1, PreCall[row])
                IN  sentence_vectors[row] =
                        [d \in Dim |-> RMul(total[d], <<1, Len(OwnWords(k))>>)]

\* The spec's scenario: ["cat", "sat"] (weights 0.5 and 0.3, rows [1,0] and
\* [0,1]) into the zeroed row 0 ends as [0.25, 0.15]; here a token outside
\* the vocabulary stands between the two and an empty sentence comes first.
C1_Witness ==
    /\ Returned /\ ~is_ft
    /\ indexed_sentences = <<Sentence(<<>>, 1), Sentence(<<"cat", "dog", "sat">>, 0)>>
    /\ sentence_vectors[0] = [d \in Dim |-> IF d = 1 THEN <<1, 4>> ELSE <<3, 20>>]

\* C2: plain populator: eff_words = min(MAX_WORDS, K) for K tokens of the
\* vocabulary in the batch; slots 0 .. eff_words-1 hold the vocabulary index
\* and target row of the first eff_words such tokens in sentence and token
\* order; no other slot is written.
C2_PlainSlots ==
    (AfterPopulate /\ ~is_ft) =>
        /\ eff_words = Min(MAX_WORDS, Len(SlotTakers))
        /\ \A i \in 0 .. MAX_WORDS - 1 :
              IF i < eff_words
              THEN /\ word_indices[i] = VocabIndex(SlotTakers[i + 1].token)
                   /\ sent_adresses[i] = SlotTakers[i + 1].row
              ELSE /\ word_indices[i] = Unset
                   /\ sent_adresses[i] = Unset

\* More tokens of the vocabulary than MAX_WORDS, the recorded ones being of
\* two sentences, two rows and two words.
C2_Witness ==
    /\ AfterPopulate /\ ~is_ft
    /\ Len(SlotTakers) > MAX_WORDS
    /\ eff_words = MAX_WORDS
    /\ Recorded[1].sent # Recorded[MAX_WORDS].sent
    /\ sent_adresses[0] # sent_adresses[MAX_WORDS - 1]
    /\ word_indices[0] # word_indices[MAX_WORDS - 1]

\* How many non-empty input sentences there are up to input sentence k.
CountedUpTo(k) == Cardinality({n \in 1 .. Len(NonEmpty) : NonEmpty[n] <= k})

\* The cap was reached, inside input sentence CutSent.
CapReached == Len(SlotTakers) >= MAX_WORDS
CutSent == Recorded[MAX_WORDS].sent
\* The cap was reached with tokens of CutSent left over.
PartialCut ==
    CapReached /\ Recorded[MAX_WORDS].at < Len(indexed_sentences[CutSent].words)

\* C3 as the spec has it: a sentence cut by the cap is left out of the
\* effective sentence count, like every sentence after it, and the
\* effective word count is MAX_WORDS.
C3_CutSentenceExcluded ==
    (AfterPopulate /\ PartialCut) =>
        /\ eff_words = MAX_WORDS
        /\ eff_sents = CountedUpTo(CutSent) - 1

\* C3, amended: in both populators a sentence cut by the cap is still
\* counted, as the last counted sentence, with the words recorded up to the
\* cap as its range; every sentence after it is left out; the effective
\* word count is MAX_WORDS.
C3_CutSentenceCounted ==
    (AfterPopulate /\ PartialCut) =>
        /\ eff_words = MAX_WORDS
        /\ eff_sents = CountedUpTo(CutSent)
        /\ sentence_boundary[eff_sents] = MAX_WORDS
        /\ sentence_boundary[eff_sents - 1] < MAX_WORDS
        /\ sent_adresses[MAX_WORDS - 1] = indexed_sentences[CutSent].index

\* A sentence cut by the cap, with a non-empty sentence after it.
C3_Witness ==
    /\ AfterPopulate /\ PartialCut
    /\ CountedUpTo(CutSent) < Len(NonEmpty)
    /\ CountedUpTo(CutSent) > 1

\* C4: both populators return counts of at most MAX_WORDS, and no
\* sentence_boundary entry past index MAX_WORDS is written.
C4_Capacity ==
    AfterPopulate =>
        /\ eff_sents <= MAX_WORDS
        /\ eff_words <= MAX_WORDS
        /\ \A k \in BoundaryCap .. MaxSents : sentence_boundary[k] = Unset

\* Input sentence k adds nothing: it is empty or, in plain mode, has no
\* token of the vocabulary.
ZeroContribution(k) ==
    \/ indexed_sentences[k].words = <<>>
    \/ /\ ~is_ft
       /\ \A j \in 1 .. Len(indexed_sentences[k].words) :
             ~InVocab(indexed_sentences[k].words[j])

\* C6: a zero-contribution sentence has no accumulate and no scale applied
\* for it, the populator writes nothing to the output matrix, and after the
\* call the sentence's row holds its pre-call value when no other sentence
\* of the batch targets that row.
C6_ZeroContribution ==
    /\ (pc \in {"populated", "compute"} /\ sent_idx = 0) => sentence_vectors = PreCall
    /\ \A k \in 1 .. Len(indexed_sentences) :
          ZeroContribution(k) =>
            /\ (Returned /\ OnlyTarget(k)) =>
                  sentence_vectors[indexed_sentences[k].index]
                      = PreCall[indexed_sentences[k].index]
            /\ (indexed_sentences[k].words # <<>> /\ CountedUpTo(k) <= Len(ends)) =>
                  /\ ends[CountedUpTo(k)].len = 0
                  /\ ends[CountedUpTo(k)].touched = {}
                  /\ \A n \in 1 .. Len(ops) : ops[n].sent # CountedUpTo(k) - 1

\* Plain mode: a sentence of tokens outside the vocabulary targets the
\* non-zero row 1, after a sentence that was averaged into row 0.
C6_Witness ==
    /\ Returned /\ ~is_ft
    /\ indexed_sentences = <<Sentence(<<"sat">>, 0), Sentence(<<>>, 0),
                             Sentence(<<"dog", "dog">>, 1)>>
    /\ Len(ends) = 2
    /\ sentence_vectors[1] = PreCall[1]
    /\ sentence_vectors[0] # PreCall[0]

\* C8: after either populator returns (s, w): sentence_boundary[0] = 0,
\* sentence_boundary[s] = w, entries 0 .. s do not decrease, one entry was
\* appended per non-empty sentence processed and none for an empty one, and
\* the flat positions between entries k and k+1 carry the target row of the
\* k-th counted sentence.
C8_BoundaryTable ==
    AfterPopulate =>
        /\ sentence_boundary[0] = 0
        /\ sentence_boundary[eff_sents] = eff_words
        /\ \A k \in 0 .. eff_sents - 1 : sentence_boundary[k] <= sentence_boundary[k + 1]
        /\ \A k \in eff_sents + 1 .. MaxSents : sentence_boundary[k] = Unset
        /\ eff_sents = IF CapReached THEN CountedUpTo(CutSent) ELSE Len(NonEmpty)
        /\ \A k \in 0 .. eff_sents - 1 :
              \A i \in sentence_boundary[k] .. sentence_boundary[k + 1] - 1 :
                  sent_adresses[i] = indexed_sentences[NonEmpty[k + 1]].index

\* Subword mode: an empty sentence between two counted ones that target
\* different rows.
C8_Witness ==
    /\ AfterPopulate /\ is_ft
    /\ Len(indexed_sentences) = 3
    /\ indexed_sentences[2].words = <<>>
    /\ indexed_sentences[1].index # indexed_sentences[3].index
    /\ eff_sents = 2
    /\ sentence_boundary[1] = 1
    /\ sentence_boundary[2] = 2

\* The token recorded at flat position i.
TokenAt(i) == Recorded[i + 1].token
\* The first min(n, MAX_NGRAMS) hashes generated for a token.
OwnHashes(token) ==
    SubSeq(NGramHashes(token), 1, Min(Len(NGramHashes(token)), MAX_NGRAMS))

\* C5: for every word outside the vocabulary whose token generates n > 0
\* hashes, the hashes the engine reads for it are the first
\* min(n, MAX_NGRAMS) hashes generated for that token, in generation order,
\* whatever tokens stand before or after it.
C5_HashRoundTrip ==
    \A n \in 1 .. Len(ops) :
        (is_ft /\ ~InVocab(TokenAt(ops[n].pos)) /\ OwnHashes(TokenAt(ops[n].pos)) # <<>>) =>
            /\ ops[n].branch = "ngram"
            /\ ops[n].hashes = OwnHashes(TokenAt(ops[n].pos))

\* C7: the placeholder index 0 of a token outside the vocabulary is never
\* used: the engine takes the vocabulary-vector branch for no such token,
\* whatever hashes it has, none included.
C7_PlaceholderUnused ==
    \A n \in 1 .. Len(ops) :
        (is_ft /\ ~InVocab(TokenAt(ops[n].pos))) => ops[n].branch # "vocab"

RECURSIVE TokensOf(_, _)
TokensOf(words, j) ==
    IF j > Len(words) THEN <<>> ELSE <<words[j].token>> \o TokensOf(words, j + 1)

\* The value the recorded words of input sentence k leave in its row when
\* the batch holds nothing else: the call run on that sentence alone, from
\* the pre-call matrix.
AloneValue(k) ==
    LET row == indexed_sentences[k].index
        alone == <<Sentence(TokensOf(OwnWords(k), 1), row)>>
        start == [sv |-> PreCall, mem |-> ZeroVec, sent |-> 0, sent_len |-> 0,
                  sent_row |-> Unset, ops |-> <<>>]
    IN  IF is_ft
        THEN FTSentencePass(populate_ft_s2v_config(alone), start).sv[row]
        ELSE BaseSentencePass(populate_base_s2v_config(alone), start).sv[row]

LatestIn(r, c) ==
    LET prior == {n \in 1 .. c - 1 : ends[n].len > 0 /\ ends[n].row = r}
    IN  IF prior = {} THEN 0 ELSE CHOOSE n \in prior : \A m \in prior : m <= n
\* The value of row r when the pass of the c-th counted sentence starts.
RowBefore(r, c) == IF LatestIn(r, c) = 0 THEN PreCall[r] ELSE ends[LatestIn(r, c)].value

\* Component d of the n-gram vectors named by the hash cells from .. last.
RECURSIVE CellSum(_, _, _)
CellSum(from, last, d) ==
    IF from > last THEN ZEROF
    ELSE RAdd(ngram_vectors[subwords_idx[from]][d], CellSum(from + 1, last, d))

\* What the entries recorded at flat position i add to a sentence sum.
EntryContribution(i) ==
    IF is_ft /\ subwords_idx_len[i] > 0
    THEN LET n == subwords_idx_len[i]
         IN  [d \in Dim |-> RMul(<<1, n>>, CellSum(i, i + n - 1, d))]
    ELSE [d \in Dim |-> RMul(word_weights[word_indices[i]],
                              word_vectors[word_indices[i]][d])]
RECURSIVE EntrySum(_, _, _)
EntrySum(i, last, acc) ==
    IF i > last THEN acc
    ELSE EntrySum(i + 1, last, [d \in Dim |-> RAdd(acc[d], EntryContribution(i)[d])])

C10_ScratchZero ==
    is_ft =>
        /\ (pc \in {"compute", "done"}) => mem = ZeroVec
        /\ \A n \in 1 .. Len(ops) :
              /\ ops[n].branch = "ngram" =>
                    ops[n].mem_before = ZeroVec /\ ops[n].mem_after = ZeroVec
              /\ InVocab(TokenAt(ops[n].pos)) =>
                    ops[n].branch = "vocab" /\ ops[n].mem_after = ops[n].mem_before

\* The buffer came in non-zero, and a sentence of two words outside the
\* vocabulary went through the engine, after a sentence of a word inside it.
C10_Witness ==
    /\ Returned /\ is_ft
    /\ mem_at_entry # ZeroVec
    /\ mem = ZeroVec
    /\ \E n \in 1 .. Len(ops) - 1 :
          /\ ops[n].branch = "ngram" /\ ops[n + 1].branch = "ngram"
          /\ ops[n].sent = ops[n + 1].sent
          /\ ops[n].hashes # ops[n + 1].hashes

===========================================================================
